---- MODULE Spec2Model ----
(***************************************************************************)
(* Session controller of AutoMate AI (src/App.tsx), its inference gateway  *)
(* (src/services/geminiService.ts) and its history store                   *)
(* (src/unnamed/part_000, imported as ./services/storageService).          *)
(*                                                                         *)
(* The React component is modelled as a state machine: the useState cells  *)
(* are the variables, every event handler and every continuation of an     *)
(* async function after an await is one action.  A render (and the effects *)
(* that follow it) happens between any two actions, so a handler that is   *)
(* started reads the current cells, while the continuation of an async     *)
(* handler keeps the values its closure captured when it was called.       *)
(***************************************************************************)
EXTENDS Integers, Sequences, FiniteSets, Bags, TLC

----------------------------------------------------------------------------
(* Bounds of the model *)

\* async calls (acquire / analyze / elaborate) outstanding at the same time
MaxTasks == 2
\* capture sources that exist at the same time
MaxSources == 1
\* suggestions in one analyze response
MaxSuggestions == 1
\* records the local storage accepts before it reports its quota exceeded
MaxSaves == 1

\* suggestions in one analyze response, where the ranking is examined
MaxRanked == 3
\* guides saved in one run, where the history store is examined
MaxStoreSaves == 52
MaxHandles == 2

\* relevance scores a response draws from
Scores == {90}
\* relevance scores a response draws from, where the ranking is examined
RankScores == {40, 70, 90}
\* contents of the shared screen at the instant of a snapshot
Frames == {"frameA"}

----------------------------------------------------------------------------
(* Program constants *)

\* history.slice(0, 50)
HistoryLimit == 50

\* enum AppState
IDLE == "IDLE"
RECORDING == "RECORDING"
ANALYZING == "ANALYZING"
SUGGESTING == "SUGGESTING"
VIEWING_GUIDE == "VIEWING_GUIDE"
GUIDE_LOADING == "GUIDE_LOADING"
HISTORY == "HISTORY"
AppStates == {IDLE, RECORDING, ANALYZING, SUGGESTING, VIEWING_GUIDE, GUIDE_LOADING, HISTORY}

\* the user-facing messages of setErrorMsg
NoError == "null"
ErrPermission == "Permission denied. Please allow screen sharing when prompted"
ErrPolicy == "Screen sharing is blocked by the environment policy"
ErrUnsupported == "Failed to access screen: Screen sharing is not supported in this browser/environment."
ErrUnknown == "Failed to access screen: Unknown error"
ErrAnalysis == "AI Analysis failed. Please try again."
ErrAutoGuide == "Could not auto-generate guide. Please select a suggestion from the list."
ErrGuide == "Could not generate guide. Please try again."

\* a MediaStream cell / an image cell that holds null
NoStream == 0
NoImage == "null"

----------------------------------------------------------------------------
VARIABLES
    appState,       \* useState<AppState>
    stream,         \* useState<MediaStream | null>: NoStream or a source id
    suggestions,    \* useState<AutomationSuggestion[]>
    selectedGuide,  \* useState<DetailedGuide | null>: <<>> or <<guide>>
    errorMsg,       \* useState<string | null>
    lastImage,      \* useState<string | null>
    previousState,  \* useState<AppState>
    isAutoScan,     \* useState(false)
    isAnalyzing,    \* useState(false)
    tasks,          \* bag of the async calls that have been issued and have not settled
    live,           \* sources handed out whose track has not been stopped or ended
    ending,         \* sources the platform has ended, their ended event not yet delivered
    history,        \* localStorage['automate_ai_history']: the text of a HistoryItem[]
    last            \* the step just taken: its operation and what it did

session == <<appState, stream, suggestions, selectedGuide, errorMsg, lastImage,
             previousState, isAutoScan, isAnalyzing>>
platform == <<live, ending>>
vars == <<appState, stream, suggestions, selectedGuide, errorMsg, lastImage,
          previousState, isAutoScan, isAnalyzing, tasks, live, ending,
          history, last>>

\* What a step records about itself:
\*   op       the operation
\*   src      the source it concerned (Stop, SharingEnded, Ended, AcquireResolved)
\*   from     OpenHistory: the state it started in; CloseHistory: the state the
\*            OpenHistory right before it started in; AnalyzeSettled and
\*            ElaborateSettled: who awaited the call, "manual" for a manual
\*            scan, "auto" for an auto scan, "select" for a clicked suggestion;
\*            "none" otherwise
\*   dropped  it returned before doing anything (a scan request, a selection),
\*            or, for Ended, it came right after a Stop of the same source
\*   failed   the call it continues has rejected (AnalyzeSettled, ElaborateSettled)
Step(op, from, src, dropped) ==
    [op |-> op, from |-> from, src |-> src, dropped |-> dropped, failed |-> FALSE]
Settled(op, t, ok) ==
    [op |-> op,
     from |-> IF t.kind = "select" THEN "select"
              ELSE IF t.isAuto THEN "auto" ELSE "manual",
     src |-> NoStream, dropped |-> FALSE, failed |-> ~ok]

\* bag b without one copy of t / with one more copy of t
Without(b, t) == b (-) SetToBag({t})
With(b, t) == b (+) SetToBag({t})

\* a suggestion slot that holds nothing
NoSuggestion == [id |-> 0, relevanceScore |-> 0]

\* an async call in flight, with what the closure that awaits it captured:
\*   kind "acquire"  getDisplayMedia of startScreenShare(autoStart)
\*   kind "scan"     captureAndAnalyze(isAuto), called when the state was appState,
\*                   in phase "analyze" or "elaborate", with its base64Image
\*   kind "select"   generateGuideForSuggestion of handleSelectSuggestion
Task(kind, autoStart, isAuto, st, image, phase, suggestion) ==
    [kind |-> kind, autoStart |-> autoStart, isAuto |-> isAuto, appState |-> st,
     image |-> image, phase |-> phase, suggestion |-> suggestion]
AcquireTask(autoStart) ==
    Task("acquire", autoStart, FALSE, IDLE, NoImage, "acquire", NoSuggestion)
\* only the auto branch of the continuation reads the captured appState
ScanTask(isAuto, st, image) ==
    Task("scan", FALSE, isAuto, IF isAuto THEN st ELSE IDLE, image, "analyze",
         NoSuggestion)
SelectTask(suggestion, image) ==
    Task("select", FALSE, FALSE, IDLE, image, "elaborate", suggestion)

\* the calls that are outstanding, and how many of them
Outstanding == BagToSet(tasks)
AnalyzeCalls == {t \in Outstanding : t.kind = "scan" /\ t.phase = "analyze"}
ElaborateCalls == {t \in Outstanding : t.phase = "elaborate"}
RECURSIVE Copies(_)
Copies(S) ==
    IF S = {} THEN 0
    ELSE LET t == CHOOSE x \in S : TRUE IN CopiesIn(t, tasks) + Copies(S \ {t})
NumTasks == Copies(Outstanding)

Init ==
    /\ appState = IDLE
    /\ stream = NoStream
    /\ suggestions = <<>>
    /\ selectedGuide = <<>>
    /\ errorMsg = NoError
    /\ lastImage = NoImage
    /\ previousState = IDLE
    /\ isAutoScan = FALSE
    /\ isAnalyzing = FALSE
    /\ tasks = EmptyBag
    /\ live = {}
    /\ ending = {}
    /\ history = <<>>
    /\ last = Step("Init", "none", NoStream, FALSE)

----------------------------------------------------------------------------
(* What the render shows: which controls exist and accept a click *)

\* the idle pane with the two start buttons
StartButtonsShown == appState = IDLE
\* <video ref={videoRef}> is mounted, so videoRef.current is not null
VideoMounted == appState # IDLE /\ stream # NoStream
\* the Stop button
StopButtonShown == appState # IDLE /\ stream # NoStream
\* the New Scan button
ResetButtonShown == appState # IDLE /\ stream = NoStream
\* the Auto: ON/OFF button
AutoButtonShown == appState # IDLE /\ stream # NoStream
\* the Scan / Re-Scan button is rendered and not disabled
ScanButtonEnabled ==
    /\ appState # IDLE /\ stream # NoStream
    /\ ~(appState = ANALYZING \/ appState = GUIDE_LOADING \/ isAnalyzing)
\* the suggestion cards
CardsShown ==
    \/ appState = SUGGESTING
    \/ appState = GUIDE_LOADING
    \/ (appState = VIEWING_GUIDE /\ selectedGuide = <<>>)
\* <GuideView> with its back button
GuideViewShown == appState = VIEWING_GUIDE /\ selectedGuide # <<>>
\* <HistoryView>
HistoryViewShown == appState = HISTORY

----------------------------------------------------------------------------
(* Capture lifecycle *)

\* stream.getTracks().forEach(track => track.stop()) of the held source
StopTracks(held) == IF stream # NoStream THEN held \ {stream} ELSE held

\* const hasContent = ...
StopHasContent ==
    Len(suggestions) > 0 \/ selectedGuide # <<>> \/ appState = HISTORY

StopNextStateMutant == IF ~StopHasContent THEN IDLE ELSE SUGGESTING
StopNextStateLateMutant ==
    IF stream = NoStream \/ ~StopHasContent
    THEN IDLE
    ELSE IF appState = RECORDING \/ appState = ANALYZING
         THEN SUGGESTING
         ELSE appState
\* the state handleStopStream leaves
StopNextState ==
    IF ~StopHasContent
    THEN IDLE
    ELSE IF appState = RECORDING \/ appState = ANALYZING
         THEN SUGGESTING
         ELSE appState

StopKeepsSuggestionsMutant == <<>>
\* handleStopStream has no setSuggestions: the cell keeps its value
StopKeepsSuggestions == suggestions

StopAutoScanMutant == isAutoScan
\* setIsAutoScan(false) of handleStopStream
StopAutoScan == FALSE

StopStreamMutant == stream
\* setStream(null) of handleStopStream
StopStream == NoStream

\* handleStopStream, run on the current cells
handleStopStream(held) ==
    /\ stream' = StopStream
    /\ live' = StopTracks(held)
    /\ isAutoScan' = StopAutoScan
    /\ appState' = StopNextState
    /\ suggestions' = StopKeepsSuggestions
    /\ UNCHANGED <<selectedGuide, errorMsg, lastImage, previousState, isAnalyzing,
                   tasks, history>>

\* a click on Stop
Stop ==
    /\ StopButtonShown
    /\ handleStopStream(live)
    /\ ending' = ending
    /\ last' = Step("Stop", "none", stream, FALSE)

\* the user ends the sharing of source s from the browser: the track ends and
\* its ended event is queued; the controller has not run yet
SharingEnded(s) ==
    /\ s \in live
    /\ live' = live \ {s}
    /\ ending' = ending \cup {s}
    /\ UNCHANGED <<session, tasks, history>>
    /\ last' = Step("SharingEnded", "none", s, FALSE)

\* track.onended of source s is delivered: stopStreamRef.current() is the
\* handleStopStream of the latest render.  A click on Stop may have been
\* handled since the track ended, so the source may be released already.
Ended(s) ==
    /\ s \in ending
    /\ ending' = ending \ {s}
    /\ handleStopStream(live)
    /\ last' = Step("Ended", "none", s, last.op = "Stop" /\ last.src = s)

ResetLastImageMutant == lastImage
\* setLastImage(null) of handleReset
ResetLastImage == NoImage

\* handleReset, a click on New Scan
Reset ==
    /\ ResetButtonShown
    /\ stream' = NoStream
    /\ live' = StopTracks(live)
    /\ isAutoScan' = FALSE
    /\ appState' = IDLE
    /\ suggestions' = <<>>
    /\ selectedGuide' = <<>>
    /\ lastImage' = ResetLastImage
    /\ UNCHANGED <<errorMsg, previousState, isAnalyzing, tasks, ending, history>>
    /\ last' = Step("Reset", "none", stream, FALSE)

\* message.includes(phrase)
Includes(message, phrase) ==
    \E i \in 1..(Len(message) - Len(phrase) + 1) :
        SubSeq(message, i, i + Len(phrase) - 1) = phrase

\* what the catch block of startScreenShare reads of the value thrown: its
\* name and its message ("" for a message that is missing or empty)
\* throw new Error("Screen sharing is not supported in this browser/environment.")
UnsupportedError ==
    [name |-> "Error",
     message |-> "Screen sharing is not supported in this browser/environment."]
\* the rejections of getDisplayMedia
AcquireErrors == {[name |-> "NotAllowedError", message |-> "Permission denied"]}
AllAcquireErrors ==
    AcquireErrors \cup
    {[name |-> "NotAllowedError",
      message |-> "Access to the feature is disallowed by permissions policy"],
     [name |-> "SecurityError",
      message |-> "Access to the feature is disallowed by permissions policy"],
     [name |-> "Error", message |-> "Permission denied by system"],
     [name |-> "NotReadableError", message |-> "Could not start video source"],
     [name |-> "AbortError", message |-> ""]}

\* the message the catch block of startScreenShare picks
AcquireErrorMsg(err) ==
    IF err.name = "NotAllowedError" \/ Includes(err.message, "Permission denied")
    THEN ErrPermission
    ELSE IF err.message # "" /\ Includes(err.message, "permissions policy")
         THEN ErrPolicy
         ELSE "Failed to access screen: "
                  \o (IF err.message # "" THEN err.message ELSE "Unknown error")

\* startScreenShare up to its await: clear the error, then either the API is
\* missing (the throw is caught at once) or getDisplayMedia is called
StartScreenShare(autoStart, supported) ==
    /\ StartButtonsShown
    /\ IF supported
       THEN /\ NumTasks < MaxTasks
            /\ tasks' = With(tasks, AcquireTask(autoStart))
            /\ errorMsg' = NoError
            /\ last' = Step("StartScreenShare", "none", NoStream, FALSE)
       ELSE /\ tasks' = tasks
            /\ errorMsg' = AcquireErrorMsg(UnsupportedError)
            /\ last' = Step("StartScreenShare", "none", NoStream, FALSE)
    /\ UNCHANGED <<appState, stream, suggestions, selectedGuide, lastImage,
                   previousState, isAutoScan, isAnalyzing, platform, history>>

\* the sources the platform can hand out: those that are neither live nor
\* waiting for their ended event
FreeSources(pool) == pool \ (live \cup ending)

\* getDisplayMedia of task t resolves with source src: the rest of the try block
AcquireResolved(t, src, pool) ==
    /\ t \in Outstanding
    /\ t.kind = "acquire"
    /\ src \in FreeSources(pool)
    /\ \A o \in FreeSources(pool) : src <= o
    /\ stream' = src
    /\ live' = live \cup {src}
    /\ last' = Step("AcquireResolved", "none", src, FALSE)
    /\ appState' = RECORDING
    /\ isAutoScan' = t.autoStart
    /\ tasks' = Without(tasks, t)
    /\ UNCHANGED <<suggestions, selectedGuide, errorMsg, lastImage, previousState,
                   isAnalyzing, ending, history>>

\* getDisplayMedia of task t rejects: the catch block
AcquireRejected(t, err) ==
    /\ t \in Outstanding
    /\ t.kind = "acquire"
    /\ errorMsg' = AcquireErrorMsg(err)
    /\ tasks' = Without(tasks, t)
    /\ UNCHANGED <<appState, stream, suggestions, selectedGuide, lastImage,
                   previousState, isAutoScan, isAnalyzing, platform, history>>
    /\ last' = Step("AcquireRejected", "none", NoStream, FALSE)

\* onClick={() => setIsAutoScan(!isAutoScan)}
ToggleAuto ==
    /\ AutoButtonShown
    /\ isAutoScan' = ~isAutoScan
    /\ UNCHANGED <<appState, stream, suggestions, selectedGuide, errorMsg, lastImage,
                   previousState, isAnalyzing, tasks, platform, history>>
    /\ last' = Step("ToggleAuto", "none", NoStream, FALSE)

----------------------------------------------------------------------------
(* History toggle *)

HistoryCloseTargetMutant == IDLE
\* previousState !== AppState.HISTORY ? previousState : AppState.IDLE
HistoryCloseTarget == IF previousState # HISTORY THEN previousState ELSE IDLE

HistoryOpenRemembersMutant == HISTORY
\* setPreviousState(appState)
HistoryOpenRemembers == appState

\* handleToggleHistory: the header button, and onClose of <HistoryView>
ToggleHistory ==
    /\ IF appState = HISTORY
       THEN /\ appState' = HistoryCloseTarget
            /\ previousState' = previousState
            /\ last' = Step("CloseHistory",
                            IF last.op = "OpenHistory" THEN last.from ELSE "none",
                            NoStream, FALSE)
       ELSE /\ previousState' = HistoryOpenRemembers
            /\ appState' = HISTORY
            /\ last' = Step("OpenHistory", appState, NoStream, FALSE)
    /\ UNCHANGED <<stream, suggestions, selectedGuide, errorMsg, lastImage,
                   isAutoScan, isAnalyzing, tasks, platform, history>>

----------------------------------------------------------------------------
(* Inference gateway: analyzeScreenImage and generateGuideForSuggestion *)

\* what ai.models.generateContent can come back with for an analyze request:
\* the call rejects, the response has no text, the text is no JSON, or the
\* text is a JSON array of suggestions
ScoreLists == UNION {[1..n -> Scores] : n \in 0..MaxSuggestions}
AnalyzeResponses ==
    {[kind |-> k, scores |-> <<>>] : k \in {"reject", "notext", "malformed"}}
        \cup {[kind |-> "json", scores |-> sc] : sc \in ScoreLists}

\* JSON.parse(text) as AutomationSuggestion[]: the ids are the model's own
ParseSuggestions(scores) ==
    [i \in 1..Len(scores) |-> [id |-> i, relevanceScore |-> scores[i]]]

\* x placed behind every element that does not compare after it
RECURSIVE InsertByRelevance(_, _)
InsertByRelevance(x, sorted) ==
    IF sorted = <<>> THEN <<x>>
    ELSE IF Head(sorted).relevanceScore >= x.relevanceScore
         THEN <<Head(sorted)>> \o InsertByRelevance(x, Tail(sorted))
         ELSE <<x>> \o sorted

SortByRelevanceMutant(s) == s
\* suggestions.sort((a, b) => b.relevanceScore - a.relevanceScore), a stable sort
RECURSIVE SortByRelevance(_)
SortByRelevance(s) ==
    IF s = <<>> THEN <<>>
    ELSE InsertByRelevance(s[Len(s)], SortByRelevance(SubSeq(s, 1, Len(s) - 1)))

analyzeScreenImageMutant(resp) ==
    IF resp.kind \in {"reject", "notext", "malformed"} THEN [ok |-> FALSE, value |-> <<>>]
    ELSE [ok |-> TRUE, value |-> SortByRelevance(ParseSuggestions(resp.scores))]
\* analyzeScreenImage: ok is FALSE when the promise rejects
analyzeScreenImage(resp) ==
    IF resp.kind = "reject" THEN [ok |-> FALSE, value |-> <<>>]
    ELSE IF resp.kind = "notext" THEN [ok |-> TRUE, value |-> <<>>]
    ELSE IF resp.kind = "malformed" THEN [ok |-> TRUE, value |-> <<>>]
    ELSE [ok |-> TRUE, value |-> SortByRelevance(ParseSuggestions(resp.scores))]

\* the guides a response text can hold; suggestionId is what the model wrote
GuidePayloads ==
    {[suggestionId |-> 0, title |-> "guide",
      steps |-> <<[stepNumber |-> 1, instruction |-> "open"],
                  [stepNumber |-> 2, instruction |-> "run", tip |-> "why"],
                  [stepNumber |-> 3, instruction |-> "paste",
                   selectorDescription |-> "the blue button", codeSnippet |-> "=SUM(A:A)"]>>]}
ElaborateResponses ==
    {[kind |-> k, guide |-> <<>>] : k \in {"reject", "notext", "malformed"}}
        \cup {[kind |-> "json", guide |-> <<g>>] : g \in GuidePayloads}

generateGuideLenientMutant(resp, suggestion) ==
    IF resp.kind = "json"
    THEN [ok |-> TRUE,
          value |-> <<[resp.guide[1] EXCEPT !.suggestionId = suggestion.id]>>]
    ELSE IF resp.kind = "malformed"
    THEN [ok |-> TRUE,
          value |-> <<[suggestionId |-> suggestion.id, title |-> "", steps |-> <<>>]>>]
    ELSE [ok |-> FALSE, value |-> <<>>]
generateGuideForSuggestionMutant(resp, suggestion) ==
    IF resp.kind = "json"
    THEN [ok |-> TRUE, value |-> resp.guide]
    ELSE [ok |-> FALSE, value |-> <<>>]
\* generateGuideForSuggestion: ok is FALSE when the promise rejects
generateGuideForSuggestion(resp, suggestion) ==
    IF resp.kind = "json"
    THEN [ok |-> TRUE,
          value |-> <<[resp.guide[1] EXCEPT !.suggestionId = suggestion.id]>>]
    ELSE [ok |-> FALSE, value |-> <<>>]

----------------------------------------------------------------------------
(* History store *)

\* crypto.randomUUID(): an id no stored record has
FreshId(h) == IF h = <<>> THEN 1 ELSE h[1].id + 1
\* Date.now(): later than the timestamp of every stored record
Now(h) == IF h = <<>> THEN 1 ELSE h[1].timestamp + 1

\* the members of a GuideStep, in the order they are written
StepKeys == <<"stepNumber", "instruction", "selectorDescription", "codeSnippet", "tip">>
OptionalStepKeys == {"selectorDescription", "codeSnippet", "tip"}
\* the value of a member that is there but undefined
Undefined == "undefined"

\* the members of step s that JSON.stringify writes, as <<key, value>> in key
\* order: a member that is missing or undefined is left out
RECURSIVE Members(_, _)
Members(s, keys) ==
    IF keys = <<>> THEN <<>>
    ELSE LET k == Head(keys)
             written == /\ k \in DOMAIN s
                        /\ ~(k \in OptionalStepKeys /\ s[k] = Undefined)
         IN  (IF written THEN <<<<k, s[k]>>>> ELSE <<>>) \o Members(s, Tail(keys))

StringifyStepMutant(s) == Members(s, SubSeq(StepKeys, 1, 4))
\* JSON.stringify / JSON.parse of a GuideStep
StringifyStep(s) == Members(s, StepKeys)
ParseStep(m) ==
    [k \in {m[i][1] : i \in 1..Len(m)} |-> m[CHOOSE i \in 1..Len(m) : m[i][1] = k][2]]

\* JSON.stringify / JSON.parse of a DetailedGuide
StringifyGuide(g) ==
    [suggestionId |-> g.suggestionId, title |-> g.title,
     steps |-> [i \in 1..Len(g.steps) |-> StringifyStep(g.steps[i])]]
ParseGuide(j) ==
    [suggestionId |-> j.suggestionId, title |-> j.title,
     steps |-> [i \in 1..Len(j.steps) |-> ParseStep(j.steps[i])]]

\* JSON.stringify / JSON.parse of a HistoryItem[]
StringifyHistory(items) ==
    [i \in 1..Len(items) |->
        [id |-> items[i].id, guide |-> StringifyGuide(items[i].guide),
         timestamp |-> items[i].timestamp]]
ParseHistory(text) ==
    [i \in 1..Len(text) |->
        [id |-> text[i].id, guide |-> ParseGuide(text[i].guide),
         timestamp |-> text[i].timestamp]]

\* getHistory: the stored text h, parsed
getHistory(h) == ParseHistory(h)

saveGuideToHistoryMutant(h, guide, stored) ==
    IF ~stored THEN h
    ELSE StringifyHistory(<<[id |-> FreshId(h), guide |-> guide, timestamp |-> Now(h)]>>
                              \o ParseHistory(h))
\* saveGuideToHistory: the stored text h is parsed, the new record is put
\* first, the list is cut to the newest 50 and written back; stored is FALSE
\* when localStorage throws, which leaves the store as it was
saveGuideToHistory(h, guide, stored) ==
    IF ~stored THEN h
    ELSE LET added == <<[id |-> FreshId(h), guide |-> guide, timestamp |-> Now(h)]>>
                          \o ParseHistory(h)
         IN  StringifyHistory(IF Len(added) > HistoryLimit
                              THEN SubSeq(added, 1, HistoryLimit)
                              ELSE added)

SaveRethrowsMutant(stored) == ~stored
\* try { ... } catch (e) { console.error(...) } of saveGuideToHistory: what
\* localStorage throws does not reach the caller
SaveRethrows(stored) == FALSE

\* whether localStorage.setItem can succeed
StorageAccepts(h) == Len(h) < MaxSaves

----------------------------------------------------------------------------
(* Scan pipeline: captureAndAnalyze *)

ScanOverlapGuardMutant == FALSE
\* if (isAnalyzing) return; -- read from the latest render
ScanOverlapGuard == isAnalyzing

ScanStartStateMutant(isAuto) == ANALYZING
\* if (!isAuto) { setAppState(AppState.ANALYZING) }
ScanStartState(isAuto) == IF isAuto THEN appState ELSE ANALYZING

\* captureAndAnalyze(isAuto) up to its first await.  frame is what the video
\* shows, ctxOk whether canvas.getContext('2d') gave a context.
captureAndAnalyze(isAuto, frame, ctxOk, op) ==
    IF ~VideoMounted \/ ScanOverlapGuard
    THEN /\ UNCHANGED <<session, tasks>>
         /\ last' = Step(op, "none", NoStream, TRUE)
    ELSE /\ appState' = ScanStartState(isAuto)
         /\ IF ctxOk
            THEN /\ NumTasks < MaxTasks
                 /\ isAnalyzing' = TRUE
                 /\ lastImage' = frame
                 /\ tasks' = With(tasks, ScanTask(isAuto, appState, frame))
                 /\ last' = Step(op, "none", NoStream, FALSE)
            ELSE /\ isAnalyzing' = FALSE
                 /\ UNCHANGED <<lastImage, tasks>>
                 /\ last' = Step(op, "none", NoStream, FALSE)
         /\ UNCHANGED <<stream, suggestions, selectedGuide, errorMsg,
                        previousState, isAutoScan>>

\* a click on Scan / Re-Scan
ManualScan(frame, ctxOk) ==
    /\ ScanButtonEnabled
    /\ captureAndAnalyze(FALSE, frame, ctxOk, "ManualScan")
    /\ UNCHANGED <<platform, history>>

TimerArmedMutant == isAutoScan /\ stream # NoStream
\* the condition under which the effect holds a setInterval
TimerArmed ==
    isAutoScan /\ stream # NoStream /\ (appState = RECORDING \/ appState = SUGGESTING)

\* the interval fires: captureAndAnalyze(true) of the latest render
Tick(frame, ctxOk) ==
    /\ TimerArmed
    /\ captureAndAnalyze(TRUE, frame, ctxOk, "Tick")
    /\ UNCHANGED <<platform, history>>

\* results.length > 0 && (appState === RECORDING || appState === SUGGESTING),
\* appState being the one the closure of task t captured
AutoResultShown(t, results) ==
    Len(results) > 0 /\ (t.appState = RECORDING \/ t.appState = SUGGESTING)

AnalyzeFailureStateMutant(isAuto) == RECORDING
\* catch (err) { if (!isAuto) { ...; setAppState(AppState.RECORDING) } }
AnalyzeFailureState(isAuto) == IF ~isAuto THEN RECORDING ELSE appState

AnalyzeFailureMsgMutant(isAuto) == errorMsg
\* catch (err) { if (!isAuto) { setErrorMsg("AI Analysis failed. ..."); ... } }
AnalyzeFailureMsg(isAuto) == IF ~isAuto THEN ErrAnalysis ELSE errorMsg

FlagAfterAnalyzeMutant(elaborates) == FALSE
\* finally { setIsAnalyzing(false) } runs when the try block is left: not yet
\* when the block goes on to await the elaborate call
FlagAfterAnalyze(elaborates) == IF elaborates THEN isAnalyzing ELSE FALSE

ScanElaborateTaskMutant(t, suggestion) ==
    [t EXCEPT !.phase = "elaborate", !.suggestion = suggestion, !.image = lastImage]
\* generateGuideForSuggestion(results[0], base64Image) of captureAndAnalyze:
\* base64Image is the local of the scan, the snapshot its analyze call got
ScanElaborateTask(t, suggestion) ==
    [t EXCEPT !.phase = "elaborate", !.suggestion = suggestion]

\* the analyze call of scan task t settles with resp: the rest of the try
\* block up to the next await, or the catch block, and then finally
AnalyzeSettled(t, resp) ==
    /\ t \in AnalyzeCalls
    /\ LET res == analyzeScreenImage(resp)
           elaborates == res.ok /\ ~t.isAuto /\ Len(res.value) > 0
       IN  /\ suggestions' = IF res.ok THEN res.value ELSE suggestions
           /\ appState' =
                IF res.ok
                THEN IF ~t.isAuto
                     THEN IF Len(res.value) > 0 THEN GUIDE_LOADING ELSE SUGGESTING
                     ELSE IF AutoResultShown(t, res.value) THEN SUGGESTING ELSE appState
                ELSE AnalyzeFailureState(t.isAuto)
           /\ errorMsg' = IF res.ok THEN errorMsg ELSE AnalyzeFailureMsg(t.isAuto)
           /\ isAnalyzing' = FlagAfterAnalyze(elaborates)
           /\ tasks' =
                IF elaborates
                THEN With(Without(tasks, t), ScanElaborateTask(t, res.value[1]))
                ELSE Without(tasks, t)
           /\ last' = Settled("AnalyzeSettled", t, res.ok)
    /\ UNCHANGED <<stream, selectedGuide, lastImage, previousState, isAutoScan,
                   platform, history>>

----------------------------------------------------------------------------
(* Guides *)

\* handleSelectSuggestion up to its await; a click on a suggestion card
SelectSuggestion(k) ==
    /\ CardsShown
    /\ k \in 1..Len(suggestions)
    /\ IF lastImage = NoImage
       THEN /\ UNCHANGED <<appState, tasks>>
            /\ last' = Step("SelectSuggestion", "none", NoStream, TRUE)
       ELSE /\ NumTasks < MaxTasks
            /\ appState' = GUIDE_LOADING
            /\ tasks' = With(tasks, SelectTask(suggestions[k], lastImage))
            /\ last' = Step("SelectSuggestion", "none", NoStream, FALSE)
    /\ UNCHANGED <<stream, suggestions, selectedGuide, errorMsg, lastImage,
                   previousState, isAutoScan, isAnalyzing, platform, history>>

ElaborateErrorMsgMutant(kind) == IF kind = "scan" THEN ErrAutoGuide ELSE NoError
\* the message of the catch block around generateGuideForSuggestion, in
\* captureAndAnalyze and in handleSelectSuggestion
ElaborateErrorMsg(kind) == IF kind = "scan" THEN ErrAutoGuide ELSE ErrGuide

\* the elaborate call of task t settles with resp, in captureAndAnalyze or in
\* handleSelectSuggestion; stored is whether localStorage takes the record
ElaborateSettled(t, resp, stored) ==
    /\ t \in ElaborateCalls
    /\ stored => StorageAccepts(history)
    /\ LET res == generateGuideForSuggestion(resp, t.suggestion)
           shown == res.ok /\ ~SaveRethrows(stored)
       IN  /\ selectedGuide' = IF res.ok THEN res.value ELSE selectedGuide
           /\ history' = IF res.ok
                         THEN saveGuideToHistory(history, res.value[1], stored)
                         ELSE history
           /\ appState' = IF shown THEN VIEWING_GUIDE ELSE SUGGESTING
           /\ errorMsg' = IF shown THEN errorMsg ELSE ElaborateErrorMsg(t.kind)
           /\ isAnalyzing' = IF t.kind = "scan" THEN FALSE ELSE isAnalyzing
           /\ tasks' = Without(tasks, t)
           /\ last' = Settled("ElaborateSettled", t, res.ok)
    /\ UNCHANGED <<stream, suggestions, lastImage, previousState, isAutoScan, platform>>

BackTargetStateMutant == appState
\* setAppState(AppState.SUGGESTING) of handleBackToSuggestions
BackTargetState == SUGGESTING

\* handleBackToSuggestions, onBack of <GuideView>
BackToSuggestions ==
    /\ GuideViewShown
    /\ appState' = BackTargetState
    /\ selectedGuide' = <<>>
    /\ UNCHANGED <<stream, suggestions, errorMsg, lastImage, previousState,
                   isAutoScan, isAnalyzing, tasks, platform, history>>
    /\ last' = Step("BackToSuggestions", "none", NoStream, FALSE)

\* handleSelectHistoryGuide, a click on record k of <HistoryView>
SelectHistoryGuide(k) ==
    /\ HistoryViewShown
    /\ k \in 1..Len(history)
    /\ selectedGuide' = <<getHistory(history)[k].guide>>
    /\ appState' = VIEWING_GUIDE
    /\ UNCHANGED <<stream, suggestions, errorMsg, lastImage, previousState,
                   isAutoScan, isAnalyzing, tasks, platform, history>>
    /\ last' = Step("SelectHistoryGuide", "none", NoStream, FALSE)

\* clearHistory, the confirmed click on Clear of <HistoryView>
ClearHistory ==
    /\ HistoryViewShown
    /\ history' = <<>>
    /\ UNCHANGED <<session, tasks, platform>>
    /\ last' = Step("ClearHistory", "none", NoStream, FALSE)

Next ==
    \/ Stop
    \/ \E s \in 1..MaxSources : SharingEnded(s)
    \/ \E s \in 1..MaxSources : Ended(s)
    \/ Reset
    \/ \E autoStart \in BOOLEAN, supported \in BOOLEAN : StartScreenShare(autoStart, supported)
    \/ \E t \in Outstanding, src \in 1..MaxSources : AcquireResolved(t, src, 1..MaxSources)
    \/ \E t \in Outstanding, err \in AcquireErrors : AcquireRejected(t, err)
    \/ ToggleAuto
    \/ ToggleHistory
    \/ \E frame \in Frames, ctxOk \in BOOLEAN : ManualScan(frame, ctxOk)
    \/ \E frame \in Frames, ctxOk \in BOOLEAN : Tick(frame, ctxOk)
    \/ \E t \in Outstanding, resp \in AnalyzeResponses : AnalyzeSettled(t, resp)
    \/ \E k \in 1..MaxSuggestions : SelectSuggestion(k)
    \/ \E t \in Outstanding, resp \in ElaborateResponses, stored \in BOOLEAN :
            ElaborateSettled(t, resp, stored)
    \/ BackToSuggestions
    \/ \E k \in 1..HistoryLimit : SelectHistoryGuide(k)
    \/ ClearHistory

Spec == Init /\ [][Next]_vars

----------------------------------------------------------------------------
(* Properties of the session controller *)

\* how many analyze / elaborate calls are outstanding, and how many pipelines
\* started by captureAndAnalyze
NumAnalyze == Copies(AnalyzeCalls)
NumElaborate == Copies(ElaborateCalls)
NumAutoAnalyze == Copies({t \in AnalyzeCalls : t.isAuto})
NumScans == Copies({t \in Outstanding : t.kind = "scan"})

StopOps == {"Stop", "Ended"}
ScanOps == {"ManualScan", "Tick"}

\* C1: for every interleaving of scan requests, ticks and completions, a step
\* that issues an analyze call starts with the in-flight flag clear, and at
\* most one analyze call is outstanding at any time.
C1_NoAnalyzeWhileInFlight ==
    /\ [](NumAnalyze <= 1)
    /\ [][NumAnalyze' > NumAnalyze => ~isAnalyzing]_vars
\* a tick has arrived while an analyze call was outstanding and was turned away
C1_Witness ==
    last.op = "Tick" /\ last.dropped /\ NumAnalyze = 1 /\ isAnalyzing

\* C2: at most one analyze/elaborate pipeline is outstanding at any time,
\* whichever path (manual scan, tick, suggestion card) asks for a call.
C2_AtMostOnePipeline == NumAnalyze + NumElaborate <= 1

\* C3: when the result of an auto-scan analyze call arrives and the state is
\* no longer Capturing or Suggesting, the result is discarded: neither the
\* state nor the suggestions change.
C3_StaleAutoResultDiscarded ==
    [][(NumAutoAnalyze' < NumAutoAnalyze /\ appState \notin {RECORDING, SUGGESTING})
          => (appState' = appState /\ suggestions' = suggestions)]_vars

\* C4: a tick of the auto-scan timer never fires while the state is
\* Analyzing, GeneratingGuide, ViewingGuide or History (nor Idle): after a
\* tick, which leaves the state alone, the state is Capturing or Suggesting.
C4_TickOnlyWhenPassive ==
    last.op = "Tick" => appState \in {RECORDING, SUGGESTING}
\* a tick has fired and started an auto scan
C4_Witness ==
    last.op = "Tick" /\ ~last.dropped /\ NumAutoAnalyze = 1

\* C5: a scan request, manual or from the timer, that arrives while the
\* in-flight flag is set issues no call and changes no cell of the session.
C5_DroppedScanChangesNothing ==
    [][(last'.op \in ScanOps /\ isAnalyzing)
          => UNCHANGED <<session, tasks, platform, history>>]_vars
\* a tick has been dropped while the timer was armed in Suggesting
C5_Witness ==
    last.op = "Tick" /\ last.dropped /\ isAnalyzing /\ appState = SUGGESTING

\* C6 as stated: the in-flight flag is set exactly while an analyze call is
\* outstanding.
C6_FlagIffAnalyzeOutstanding == isAnalyzing <=> NumAnalyze >= 1
\* C6 amended: the in-flight flag is set exactly while a pipeline started by
\* captureAndAnalyze is outstanding, that is its analyze call or, in a manual
\* scan, the elaborate call that follows it.
C6_FlagIffScanOutstanding == isAnalyzing <=> NumScans >= 1
\* a manual scan is in its elaborate call: the flag is set, no analyze call is out
C6_Witness ==
    isAnalyzing /\ NumAnalyze = 0 /\ NumScans = 1 /\ appState = GUIDE_LOADING

\* C7 as stated: stop capture with suggestions leaves Suggesting; with no
\* suggestions, no guide and history not open it leaves Idle.
C7_StopLandsInSuggesting ==
    [][last'.op \in StopOps
          => /\ Len(suggestions) > 0 => appState' = SUGGESTING
             /\ (Len(suggestions) = 0 /\ selectedGuide = <<>> /\ appState # HISTORY)
                    => appState' = IDLE]_vars
\* C7 amended: stop capture with suggestions never leaves Idle: it leaves
\* Suggesting when the state was Capturing, Analyzing or Suggesting and leaves
\* GeneratingGuide, ViewingGuide and History as they were; with no
\* suggestions, no guide and history not open it leaves Idle.
C7_StopKeepsContentState ==
    [][last'.op \in StopOps
          => /\ Len(suggestions) > 0
                    => /\ appState' # IDLE
                       /\ appState \in {RECORDING, ANALYZING, SUGGESTING}
                              => appState' = SUGGESTING
                       /\ appState \in {GUIDE_LOADING, VIEWING_GUIDE, HISTORY}
                              => appState' = appState
             /\ (Len(suggestions) = 0 /\ selectedGuide = <<>> /\ appState # HISTORY)
                    => appState' = IDLE]_vars
\* the capture was stopped while a guide was on view, and the guide stayed
C7_Witness ==
    last.op = "Stop" /\ Len(suggestions) > 0 /\ appState = VIEWING_GUIDE
\* C8: stop capture, by the user or by the platform, leaves suggestions,
\* selectedGuide and lastImage as they were; it releases the source, switches
\* auto-scan off and touches no other cell but the state.
C8_StopKeepsResults ==
    [][last'.op \in StopOps
          => /\ suggestions' = suggestions
             /\ selectedGuide' = selectedGuide
             /\ lastImage' = lastImage
             /\ stream' = NoStream
             /\ stream # NoStream => stream \notin live'
             /\ isAutoScan' = FALSE
             /\ UNCHANGED <<errorMsg, previousState, isAnalyzing, tasks, history>>]_vars
\* the capture was stopped with suggestions, a guide and a snapshot at hand
C8_Witness ==
    /\ last.op \in StopOps /\ last.src # NoStream
    /\ Len(suggestions) > 0 /\ selectedGuide # <<>> /\ lastImage # NoImage

C10_HistoryRoundTrip ==
    [][(last.op = "OpenHistory" /\ last'.op = "CloseHistory")
          => (appState' = last.from /\ last.from # HISTORY)]_vars
\* history was opened from Suggesting and closed again
C10_Witness ==
    last.op = "CloseHistory" /\ last.from = SUGGESTING /\ appState = SUGGESTING

----------------------------------------------------------------------------
(* Ranking of an analyze response: a capture is running, the user has just   *)
(* clicked Scan, and the response holds up to MaxRanked suggestions with any *)
(* scores                                                                    *)

RankedResponses ==
    {[kind |-> k, scores |-> <<>>] : k \in {"reject", "notext", "malformed"}}
        \cup {[kind |-> "json", scores |-> sc] :
                  sc \in UNION {[1..n -> RankScores] : n \in 0..MaxRanked}}

\* the session after startScreenShare(false) has been granted source 1 and
\* Scan has been clicked: captureAndAnalyze(false) awaits its analyze call
RankInit ==
    /\ appState = ANALYZING
    /\ stream = 1
    /\ suggestions = <<>>
    /\ selectedGuide = <<>>
    /\ errorMsg = NoError
    /\ lastImage \in Frames
    /\ previousState = IDLE
    /\ isAutoScan = FALSE
    /\ isAnalyzing = TRUE
    /\ tasks = SetToBag({ScanTask(FALSE, RECORDING, lastImage)})
    /\ live = {1}
    /\ ending = {}
    /\ history = <<>>
    /\ last = Step("ManualScan", "none", NoStream, FALSE)

RankNext ==
    \/ \E t \in Outstanding, resp \in RankedResponses : AnalyzeSettled(t, resp)
    \/ \E t \in Outstanding, resp \in ElaborateResponses, stored \in BOOLEAN :
            ElaborateSettled(t, resp, stored)
    \/ BackToSuggestions

RankSpec == RankInit /\ [][RankNext]_vars

\* the scores of a list of suggestions, in its order
ScoresOf(s) == [i \in 1..Len(s) |-> s[i].relevanceScore]
\* the list s holds the elements of r, each as often as r does
SameElements(s, r) ==
    /\ Len(s) = Len(r)
    /\ \A x \in {s[i] : i \in 1..Len(s)} \cup {r[i] : i \in 1..Len(r)} :
          Cardinality({i \in 1..Len(s) : s[i] = x})
              = Cardinality({i \in 1..Len(r) : r[i] = x})
\* no element of s has a lower score than one behind it
Descending(s) ==
    \A i, j \in 1..Len(s) : i < j => s[i].relevanceScore >= s[j].relevanceScore

\* C11: whatever the analyze response of a manual scan holds, the suggestions
\* stored are the suggestions of the response in descending order of
\* relevanceScore, and if there are any, the elaborate call that follows is
\* issued for one with the highest relevanceScore.
C11_ManualScanRanksByRelevance ==
    [][\A t \in AnalyzeCalls, resp \in RankedResponses :
          (AnalyzeSettled(t, resp) /\ ~t.isAuto /\ resp.kind = "json")
              => /\ SameElements(suggestions', ParseSuggestions(resp.scores))
                 /\ Descending(suggestions')
                 /\ Len(resp.scores) > 0 =>
                       /\ appState' = GUIDE_LOADING
                       /\ \E e \in BagToSet(tasks') :
                             /\ e.kind = "scan" /\ e.phase = "elaborate"
                             /\ e.suggestion \in {ParseSuggestions(resp.scores)[i] :
                                                      i \in 1..Len(resp.scores)}
                             /\ \A i \in 1..Len(resp.scores) :
                                   e.suggestion.relevanceScore >= resp.scores[i]]_vars
\* the response scored [40, 90, 70]: stored as [90, 70, 40], the elaborate call
\* is out for the suggestion scored 90
C11_Witness ==
    /\ appState = GUIDE_LOADING
    /\ ScoresOf(suggestions) = <<90, 70, 40>>
    /\ [i \in 1..Len(suggestions) |-> suggestions[i].id] = <<2, 3, 1>>
    /\ \E e \in ElaborateCalls :
          e.kind = "scan" /\ e.suggestion.id = 2 /\ e.suggestion.relevanceScore = 90

----------------------------------------------------------------------------
(* Failures of the inference calls *)

\* C12: when an elaborate call fails while the state is GeneratingGuide, be it
\* the call a manual scan issued or the call a click on a suggestion issued,
\* the suggestions stay as they are, the state becomes Suggesting and an
\* error message is set.
C12_ElaborateFailureFallsBack ==
    [][\A t \in ElaborateCalls, resp \in ElaborateResponses, stored \in BOOLEAN :
          (/\ ElaborateSettled(t, resp, stored)
           /\ ~generateGuideForSuggestion(resp, t.suggestion).ok
           /\ appState = GUIDE_LOADING)
              => /\ suggestions' = suggestions
                 /\ appState' = SUGGESTING
                 /\ errorMsg' # NoError]_vars
\* the elaborate call of a clicked suggestion has failed: the list is shown
\* again, with the message of handleSelectSuggestion
C12_Witness ==
    /\ last.op = "ElaborateSettled" /\ last.failed
    /\ appState = SUGGESTING
    /\ errorMsg = ErrGuide
    /\ Len(suggestions) > 0
    /\ selectedGuide = <<>>

\* C13: once an elaborate failure has set an error message, a manual scan
\* that then succeeds (its analyze call and its elaborate call both succeed)
\* leaves no error message.  Stated for the message of a failed elaborate call
\* of a manual scan: only one scan runs at a time, so the scan that succeeds
\* here was started after that failure.
C13_RescanClearsError ==
    [][\A t \in ElaborateCalls, resp \in ElaborateResponses, stored \in BOOLEAN :
          (/\ ElaborateSettled(t, resp, stored)
           /\ t.kind = "scan"
           /\ generateGuideForSuggestion(resp, t.suggestion).ok
           /\ errorMsg = ErrAutoGuide)
              => errorMsg' = NoError]_vars

\* C14: when the analyze call of a manual scan fails, an error message is
\* set, the state becomes Capturing and the capture source is still held, the
\* suggestions stay as they are and the in-flight flag is cleared.
C14_ManualAnalyzeFailureKeepsCapture ==
    [][\A t \in AnalyzeCalls, resp \in AnalyzeResponses :
          (AnalyzeSettled(t, resp) /\ ~t.isAuto /\ ~analyzeScreenImage(resp).ok)
              => /\ errorMsg' # NoError
                 /\ appState' = RECORDING
                 /\ stream' # NoStream
                 /\ suggestions' = suggestions
                 /\ isAnalyzing' = FALSE]_vars

\* C15: when the analyze call of an auto scan fails, the error message, the
\* state and the suggestions stay as they are and the in-flight flag is
\* cleared, so that the next tick is not turned away.
C15_AutoAnalyzeFailureSwallowed ==
    [][\A t \in AnalyzeCalls, resp \in AnalyzeResponses :
          (AnalyzeSettled(t, resp) /\ t.isAuto /\ ~analyzeScreenImage(resp).ok)
              => /\ errorMsg' = errorMsg
                 /\ appState' = appState
                 /\ suggestions' = suggestions
                 /\ isAnalyzing' = FALSE
                 /\ NumAnalyze' = 0]_vars
\* the analyze call of an auto scan has failed while the capture goes on:
\* nothing is shown and the timer is still armed
C15_Witness ==
    /\ last.op = "AnalyzeSettled" /\ last.failed
    /\ appState = RECORDING
    /\ errorMsg = NoError
    /\ ~isAnalyzing
    /\ TimerArmed

----------------------------------------------------------------------------
(* Auto scan *)

\* the steps that are neither an intent of the user, nor the continuation of
\* one (the elaborate call of a clicked suggestion), nor the end of the capture
BackgroundOps == {"Tick", "AnalyzeSettled", "AcquireResolved", "AcquireRejected"}

\* C16: an auto scan does not block the session: the tick that starts it
\* leaves the state, which is Capturing or Suggesting, as it is; no elaborate
\* call is ever issued for an auto scan; and while its analyze call stays
\* outstanding, no step other than an intent of the user takes the state out
\* of Capturing and Suggesting.
C16_AutoScanNonBlocking ==
    /\ [](\A t \in Outstanding : t.isAuto => t.phase = "analyze")
    /\ [][last'.op = "Tick"
            => /\ appState' = appState
               /\ appState' \in {RECORDING, SUGGESTING}
               /\ NumElaborate' = NumElaborate]_vars
    /\ [][NumAutoAnalyze' < NumAutoAnalyze
            => /\ NumElaborate' = NumElaborate
               /\ appState' \in {appState, SUGGESTING}]_vars
    /\ [][(/\ NumAutoAnalyze >= 1 /\ NumAutoAnalyze' >= 1
            /\ appState \in {RECORDING, SUGGESTING}
            /\ last'.op \in BackgroundOps)
              => appState' \in {RECORDING, SUGGESTING}]_vars
\* a tick has started an auto scan over the list of suggestions: the list
\* stays on screen while the analyze call is outstanding
C16_Witness ==
    /\ last.op = "Tick" /\ ~last.dropped
    /\ appState = SUGGESTING
    /\ isAnalyzing
    /\ NumAutoAnalyze = 1 /\ NumElaborate = 0

ReleaseOps == {"Stop", "Ended", "Reset"}

\* C17: a tick issues a scan only while auto scan is on, a capture source is
\* held and the state is Capturing or Suggesting; stop capture, external
\* termination and full reset leave no source and auto scan off, and only the
\* start of a new capture brings a source back, so no auto scan is issued in
\* between.
C17_AutoScanOnlyWhileCapturing ==
    /\ [][last'.op = "Tick"
            => /\ isAutoScan /\ stream # NoStream
               /\ appState \in {RECORDING, SUGGESTING}]_vars
    /\ [][NumAutoAnalyze' > NumAutoAnalyze
            => /\ last'.op = "Tick"
               /\ isAutoScan /\ stream # NoStream
               /\ appState \in {RECORDING, SUGGESTING}]_vars
    /\ [][last'.op \in ReleaseOps => (stream' = NoStream /\ ~isAutoScan')]_vars
    /\ [][(stream = NoStream /\ stream' # NoStream) => last'.op = "AcquireResolved"]_vars
    /\ [][(~isAutoScan /\ isAutoScan')
            => (last'.op \in {"AcquireResolved", "ToggleAuto"} /\ stream' # NoStream)]_vars
\* the capture was stopped while an auto scan was under way: the analyze call
\* is still outstanding, auto scan is off and no source is held
C17_Witness ==
    /\ last.op = "Stop"
    /\ stream = NoStream
    /\ ~isAutoScan
    /\ NumAutoAnalyze = 1

----------------------------------------------------------------------------
(* Capture source and session state *)

\* C18: whenever the state is Capturing a capture source is held, also after
\* an analyze failure or a history close that races with stop capture or with
\* the end of the sharing.
C18_CapturingHoldsSource == appState = RECORDING => stream # NoStream

----------------------------------------------------------------------------
(* Acquisition of the capture source, with every kind of failure: the start   *)
(* buttons, the outcome of getDisplayMedia, the history button and Stop       *)

AcquireNext ==
    \/ \E autoStart \in BOOLEAN, supported \in BOOLEAN :
            StartScreenShare(autoStart, supported)
    \/ \E t \in Outstanding, src \in 1..MaxSources :
            AcquireResolved(t, src, 1..MaxSources)
    \/ \E t \in Outstanding, err \in AllAcquireErrors : AcquireRejected(t, err)
    \/ ToggleHistory
    \/ ToggleAuto
    \/ Stop

AcquireSpec == Init /\ [][AcquireNext]_vars

\* the kind of failure a thrown value stands for: unsupported is the
\* component's own error; a rejection that names the permissions policy is a
\* policy block; NotAllowedError or "Permission denied" otherwise is a denial
\* by the user; everything else is unknown
AcquireErrorKind(err) ==
    IF err = UnsupportedError THEN "Unsupported"
    ELSE IF Includes(err.message, "permissions policy") THEN "PolicyBlocked"
    ELSE IF err.name = "NotAllowedError" \/ Includes(err.message, "Permission denied")
         THEN "PermissionDenied"
         ELSE "Unknown"

\* C19: a failed acquisition, whatever its kind (permission denied, policy
\* block, unsupported, unknown), leaves the session in Idle with no source
\* stored and auto scan off, and sets a non-empty error message that no
\* failure of another kind gets.
C19_AcquireFailureStaysIdle ==
    /\ [][\A t \in Outstanding, err \in AllAcquireErrors :
            AcquireRejected(t, err)
                => /\ appState' = IDLE /\ stream' = NoStream /\ ~isAutoScan'
                   /\ errorMsg' # NoError
                   /\ \A other \in AllAcquireErrors \cup {UnsupportedError} :
                         AcquireErrorKind(other) # AcquireErrorKind(err)
                             => AcquireErrorMsg(other) # errorMsg']_vars
    /\ [][(last'.op = "StartScreenShare" /\ tasks' = tasks)
            => /\ appState' = IDLE /\ stream' = NoStream /\ ~isAutoScan'
               /\ errorMsg' = ErrUnsupported
               /\ \A other \in AllAcquireErrors :
                     AcquireErrorMsg(other) # errorMsg']_vars

----------------------------------------------------------------------------
(* Full reset *)

\* C20: a full reset, from whatever state it is asked for, releases the
\* capture source if one is held and leaves the state Idle, no suggestions,
\* no selected guide, no snapshot and auto scan off.
C20_ResetClearsSession ==
    [][last'.op = "Reset"
          => /\ stream # NoStream => stream \notin live'
             /\ stream' = NoStream
             /\ appState' = IDLE
             /\ suggestions' = <<>>
             /\ selectedGuide' = <<>>
             /\ lastImage' = NoImage
             /\ ~isAutoScan']_vars
\* New Scan has been clicked after a guide had been generated and stored
C20_Witness ==
    /\ last.op = "Reset"
    /\ appState = IDLE
    /\ suggestions = <<>> /\ selectedGuide = <<>> /\ lastImage = NoImage
    /\ stream = NoStream /\ ~isAutoScan
    /\ history # <<>>

----------------------------------------------------------------------------
(* The history store on its own: guides are saved one after the other, the   *)
(* history view is opened and closed, and a stored guide is opened           *)

\* the guides generateGuideForSuggestion returns for the suggestion with id 1
StoreGuides == {[g EXCEPT !.suggestionId = 1] : g \in GuidePayloads}

\* saveGuideToHistory(guide), as called after a successful elaborate call
StoreSave(guide, stored) ==
    /\ FreshId(history) <= MaxStoreSaves
    /\ history' = saveGuideToHistory(history, guide, stored)
    /\ UNCHANGED <<session, tasks, platform>>
    /\ last' = Step("Save", "none", NoStream, ~stored)

StoreNext ==
    \/ \E guide \in StoreGuides, stored \in BOOLEAN : StoreSave(guide, stored)
    \/ ToggleHistory
    \/ \E k \in 1..HistoryLimit : SelectHistoryGuide(k)

StoreSpec == Init /\ [][StoreNext]_vars

\* the smaller of two numbers
Min(a, b) == IF a < b THEN a ELSE b
\* how many saves the store has taken since it was empty: ids count them
SavesTaken == IF history = <<>> THEN 0 ELSE history[1].id

\* C21: with no clear, after n saves that the storage has taken the store
\* holds min(n, 50) records, the most recent first, and they are the latest
\* min(n, 50) saves: each save puts its record first and keeps the records
\* that were there in their order, except the oldest of 50.
C21_HistoryKeepsLatestFifty ==
    /\ [](/\ Len(history) = Min(SavesTaken, HistoryLimit)
          /\ \A i \in 1..Len(history) : history[i].id = SavesTaken - i + 1
          /\ \A i, j \in 1..Len(history) :
                i < j => history[i].timestamp > history[j].timestamp)
    /\ [][(last'.op = "Save" /\ ~last'.dropped)
            => /\ Len(history') = Min(Len(history) + 1, HistoryLimit)
               /\ \A i \in 1..Len(history) : history'[1].id # history[i].id
               /\ \A i \in 2..Len(history') : history'[i] = history[i - 1]]_vars
\* 51 guides have been saved: 50 records, the newest first, the first save gone
C21_Witness ==
    /\ last.op = "Save" /\ ~last.dropped
    /\ SavesTaken = 51
    /\ Len(history) = 50
    /\ history[1].id = 51 /\ history[50].id = 2

\* the steps a and b are the same: as many, the same stepNumber and
\* instruction at each place, and each optional member present in both with
\* the same value or absent in both
SameSteps(a, b) ==
    /\ Len(a) = Len(b)
    /\ \A i \in 1..Len(a) :
          /\ a[i].stepNumber = b[i].stepNumber
          /\ a[i].instruction = b[i].instruction
          /\ \A k \in OptionalStepKeys :
                /\ k \in DOMAIN a[i] <=> k \in DOMAIN b[i]
                /\ k \in DOMAIN a[i] => a[i][k] = b[i][k]

\* C22: after a save of a guide that the storage has taken, the list read
\* back holds a record whose guide has the same steps in the same order, every
\* optional member of a step present with its value if it was present and
\* absent if it was left out.
C22_GuideRoundTrips ==
    [][\A guide \in StoreGuides :
          StoreSave(guide, TRUE)
              => \E i \in 1..Len(getHistory(history')) :
                    SameSteps(getHistory(history')[i].guide.steps, guide.steps)]_vars
\* a guide has been saved and read back: its first step has no optional
\* member, its second a tip, its third a selector description and a snippet
C22_Witness ==
    /\ last.op = "Save" /\ ~last.dropped
    /\ LET steps == getHistory(history)[1].guide.steps
       IN  /\ Len(steps) = 3
           /\ DOMAIN steps[1] = {"stepNumber", "instruction"}
           /\ "tip" \in DOMAIN steps[2] /\ steps[2].tip = "why"
           /\ DOMAIN steps[3] =
                 {"stepNumber", "instruction", "selectorDescription", "codeSnippet"}

----------------------------------------------------------------------------
(* Guides and the history store in the session *)

\* C23: when an elaborate call succeeds and the save of its guide fails, the
\* guide still becomes the selected guide, the state still becomes
\* ViewingGuide and no error message is set.
C23_FailedSaveStillShowsGuide ==
    [][\A t \in ElaborateCalls, resp \in ElaborateResponses :
          (/\ ElaborateSettled(t, resp, FALSE)
           /\ generateGuideForSuggestion(resp, t.suggestion).ok)
              => /\ selectedGuide' = generateGuideForSuggestion(resp, t.suggestion).value
                 /\ appState' = VIEWING_GUIDE
                 /\ errorMsg' = errorMsg
                 /\ history' = history]_vars
\* a guide is shown although it could not be stored: the store is empty and
\* no message is up
C23_Witness ==
    /\ last.op = "ElaborateSettled" /\ ~last.failed
    /\ appState = VIEWING_GUIDE
    /\ selectedGuide # <<>>
    /\ history = <<>>
    /\ errorMsg = NoError

\* the analyze responses that hold no suggestion: no text, text that does not
\* parse, an empty array
EmptyAnalyzeResponses ==
    {resp \in AnalyzeResponses :
        resp.kind \in {"notext", "malformed"} \/ (resp.kind = "json" /\ resp.scores = <<>>)}

C25_LateResultAfterResetDiscarded ==
    [][(/\ last.op = "Reset"
        /\ last'.op \in {"AnalyzeSettled", "ElaborateSettled"}
        /\ last'.from \in {"manual", "select"})
          => (appState' = IDLE /\ suggestions' = <<>> /\ selectedGuide' = <<>>)]_vars


\* the states in which the session waits for a call and offers no scan
BlockingStates == {ANALYZING, GUIDE_LOADING}

\* C26: the session is never in a blocking state with no call outstanding:
\* while the state is Analyzing an analyze call is outstanding, or the
\* elaborate call of that scan is, and while it is GeneratingGuide an
\* elaborate call is outstanding; the settling of that call is what moves
\* the session on to a stable state
C26_BlockingStateHasCallOutstanding ==
    appState \in BlockingStates => NumAnalyze + NumElaborate >= 1


\* the outstanding calls of manual scans, by phase
ManualAnalyzeCalls == {t \in AnalyzeCalls : ~t.isAuto}
ScanElaborateCalls == {t \in ElaborateCalls : t.kind = "scan"}

\* C27: within a manual analysis cycle the steps are sequential.  The
\* analyze call of a manual scan is issued in the step that takes the
\* snapshot and carries that snapshot; the elaborate call of the cycle
\* appears only in the step in which that analyze call settles successfully
\* with at least one suggestion, replaces it, is for the best suggestion and
\* carries the same snapshot; a cycle never has both calls outstanding
C27_ManualCycleIsSequential ==
    /\ [][\A t \in ManualAnalyzeCalls' \ ManualAnalyzeCalls :
            /\ last'.op = "ManualScan"
            /\ t.image # NoImage
            /\ lastImage' = t.image]_vars
    /\ [][\A e \in ScanElaborateCalls' \ ScanElaborateCalls :
            /\ last'.op = "AnalyzeSettled" /\ last'.from = "manual" /\ ~last'.failed
            /\ Len(suggestions') >= 1
            /\ e.suggestion = suggestions'[1]
            /\ \E t \in ManualAnalyzeCalls :
                  /\ t.image = e.image
                  /\ CopiesIn(t, tasks') = CopiesIn(t, tasks) - 1]_vars
    /\ [](Copies(ManualAnalyzeCalls) + Copies(ScanElaborateCalls) <= 1)

\* a manual cycle has reached its elaborate call, which holds the snapshot
\* the scan took
C27_Witness ==
    /\ last.op = "AnalyzeSettled" /\ last.from = "manual"
    /\ appState = GUIDE_LOADING
    /\ \E e \in ScanElaborateCalls : e.image = lastImage /\ e.image # NoImage


\* the guide an elaborate call for suggestion returns from response resp:
\* the parsed payload, stamped with the id of the suggestion
ReturnedGuide(resp, suggestion) ==
    [suggestionId |-> suggestion.id,
     title |-> resp.guide[1].title,
     steps |-> resp.guide[1].steps]

\* C28: every elaborate call that succeeds, of a manual scan or of a clicked
\* suggestion, makes one save of the returned guide (when the storage takes
\* it the store has one record more, the first, holding that guide, and the
\* older records are kept), sets selectedGuide to that guide and moves the
\* state to ViewingGuide; an elaborate call that fails saves nothing
C28_SuccessfulElaborateSavesOnce ==
    [][\A t \in ElaborateCalls, resp \in ElaborateResponses, stored \in BOOLEAN :
          ElaborateSettled(t, resp, stored)
              => IF resp.kind = "json"
                 THEN /\ selectedGuide' = <<ReturnedGuide(resp, t.suggestion)>>
                      /\ appState' = VIEWING_GUIDE
                      /\ ~stored => history' = history
                      /\ stored =>
                           LET old == getHistory(history)
                               new == getHistory(history')
                           IN  /\ Len(new) = Min(Len(old) + 1, HistoryLimit)
                               /\ new[1].guide.suggestionId = t.suggestion.id
                               /\ new[1].guide.title = resp.guide[1].title
                               /\ SameSteps(new[1].guide.steps, resp.guide[1].steps)
                               /\ \A i \in 2..Len(new) : new[i] = old[i - 1]
                 ELSE history' = history]_vars

\* the guide of a clicked suggestion has arrived: it is shown and it is the
\* one record of the store
C28_Witness ==
    /\ last.op = "ElaborateSettled" /\ last.from = "select" /\ ~last.failed
    /\ appState = VIEWING_GUIDE
    /\ Len(getHistory(history)) = 1
    /\ selectedGuide # <<>>
    /\ getHistory(history)[1].guide.suggestionId = selectedGuide[1].suggestionId
    /\ selectedGuide[1].suggestionId # 0


\* a response whose text does not parse, and a call that fails on the network
MalformedAnalyze == [kind |-> "malformed", scores |-> <<>>]
RejectedAnalyze == [kind |-> "reject", scores |-> <<>>]
MalformedElaborate == [kind |-> "malformed", guide |-> <<>>]
RejectedElaborate == [kind |-> "reject", guide |-> <<>>]

NotReleased == live \cup ending

\* C30: no snapshot is taken from a released source.  A scan request that
\* gets as far as its snapshot, from the Scan button or from a tick of the
\* timer, runs while the controller holds a source, one whose tracks it has
\* not stopped, and the request leaves that source held; and whenever a scan
\* has its snapshot analyzed, the step that issued the call held a source
C30_SnapshotOnlyWhileSourceHeld ==
    /\ [][\A frame \in Frames :
            ((ManualScan(frame, TRUE) \/ Tick(frame, TRUE)) /\ ~last'.dropped)
                => /\ stream # NoStream
                   /\ stream \in NotReleased
                   /\ stream' = stream
                   /\ lastImage' = frame]_vars
    /\ [][NumAnalyze' > NumAnalyze
            => (stream # NoStream /\ stream \in NotReleased)]_vars

\* a tick of the timer has just taken a snapshot of a live source, and its
\* analyze call is outstanding
C30_Witness ==
    /\ last.op = "Tick" /\ ~last.dropped
    /\ lastImage # NoImage
    /\ NumAutoAnalyze = 1
    /\ stream \in live


----------------------------------------------------------------------------
(* Invariants of the session cells *)

\* C31: the remembered prior state is never History.  The cell changes only
\* when history is opened, from a state that is not History, and then holds
\* that state; closing history leaves the cell alone and lands in the state
\* it holds, never in Idle by the defensive fallback
C31_PriorStateNeverHistory ==
    /\ [](previousState # HISTORY)
    /\ [][previousState' # previousState
            => (last'.op = "OpenHistory" /\ appState # HISTORY
                /\ previousState' = appState)]_vars
    /\ [][last'.op = "OpenHistory"
            => (appState # HISTORY /\ previousState' = appState
                /\ appState' = HISTORY)]_vars
    /\ [][last'.op = "CloseHistory"
            => (appState = HISTORY /\ appState' = previousState
                /\ previousState' = previousState)]_vars

\* history was opened from Suggesting while a guide was still selected: the
\* cell holds Suggesting
C31_Witness ==
    /\ last.op = "OpenHistory" /\ last.from = SUGGESTING
    /\ appState = HISTORY
    /\ previousState = SUGGESTING
    /\ selectedGuide # <<>>


----------------------------------------------------------------------------
(* Ownership of capture sources: the platform can hand out MaxHandles        *)
(* sources, one for each getDisplayMedia that resolves; start, stop, end of  *)
(* sharing, history and reset                                                *)

HandlesNext ==
    \/ \E autoStart \in BOOLEAN, supported \in BOOLEAN :
            StartScreenShare(autoStart, supported)
    \/ \E t \in Outstanding, src \in 1..MaxHandles :
            AcquireResolved(t, src, 1..MaxHandles)
    \/ \E t \in Outstanding, err \in AcquireErrors : AcquireRejected(t, err)
    \/ Stop
    \/ \E s \in 1..MaxHandles : SharingEnded(s)
    \/ \E s \in 1..MaxHandles : Ended(s)
    \/ Reset
    \/ ToggleHistory
    \/ ToggleAuto

HandlesSpec == Init /\ [][HandlesNext]_vars

\* C32: at most one acquired and unreleased source exists at any time, and
\* it is the one the session holds: a source that was acquired and is not
\* held has been released, by a stop, by the end of its sharing or by a
\* reset, also when start capture was asked again while an acquisition was
\* pending
C32_AtMostOneUnreleasedSource ==
    /\ Cardinality(live) <= 1
    /\ \A s \in live : s = stream

\* C33: whenever the state is ViewingGuide a guide is selected
C33_ViewingGuideHasGuide == appState = VIEWING_GUIDE => selectedGuide # <<>>
\* history was opened over a guide and closed again after the capture had
\* ended: the guide is back on screen
C33_Witness ==
    /\ last.op = "CloseHistory"
    /\ appState = VIEWING_GUIDE
    /\ selectedGuide # <<>>
    /\ stream = NoStream

====
